---- MODULE Spec2Model ----
(***************************************************************************)
(* A model of Gnuastro's generic data container (lib/data.c): allocation   *)
(* on the heap or in a memory-mapped scratch file, release, blank values,  *)
(* masking and type conversion.                                            *)
(*                                                                         *)
(* The state is the caller's view of the process: the gal_data_t           *)
(* structures the caller holds, the heap blocks and mappings it has, the   *)
(* files of the .gnuastro scratch directory, and a record of the last      *)
(* library call with its outcome.  error(EXIT_FAILURE, ...) ends the       *)
(* process: the model keeps the state of the moment of the call to         *)
(* error() and stops.  `params' holds the fields of the parameters of the  *)
(* Statistics program that its option parser and its preparations use, and *)
(* `pc' the calls the program has made after the parsing of its options.   *)
(*                                                                         *)
(* Element values are integers.  Kinds of more than 16 bits are modelled   *)
(* with a 16 bit range (TLC's integers have 32 bits); the values that      *)
(* occur are 0, 1, the blank values and what conversions make of them.     *)
(***************************************************************************)
EXTENDS Integers, Sequences, FiniteSets, TLC

VARIABLES arrays, heap, disk, status, last, params, pc

vars == <<arrays, heap, disk, status, last, params, pc>>

(***************************************************************************)
(* Bounds of the model.                                                    *)
(***************************************************************************)
\* gal_data_t structures the caller holds at once.
MaxArrays == 2
\* Names mkstemp can give in the scratch directory.
MaxFiles == 2
\* Temporary structures gal_data_apply_mask can make in one run.
MaxTemps == 1
\* Numbers in the value of one option.
MaxNumbers == 3
\* Elements of the dataset the Statistics program reads.
MaxInput == 3

Handles == 1..MaxArrays
TempIds == (MaxArrays + 1)..(MaxArrays + MaxTemps)
FileNames == 1..MaxFiles

\* The dsize arguments given to gal_data_alloc.
Shapes == {<<1>>, <<2>>, <<1, 1>>, <<0>>, <<2, 0>>, <<-1>>, <<-1, -1>>}

(***************************************************************************)
(* The type catalogue.                                                     *)
(***************************************************************************)
\* The destination types gal_data_copy_to_new_type has a case for.
ChangeTypes ==
  {"UCHAR", "CHAR", "USHORT", "SHORT", "UINT", "INT", "ULONG", "LONG",
   "LONGLONG", "FLOAT", "DOUBLE"}

\* The types gal_data_sizeof returns a width for.
SizedTypes == ChangeTypes \cup {"LOGICAL", "STRING", "COMPLEX", "DCOMPLEX"}

\* The type codes a caller can pass: BIT and a code outside the enumeration
\* as well.
AllTypes == SizedTypes \cup {"BIT", "UNKNOWN"}

ComplexTypes == {"COMPLEX", "DCOMPLEX"}
FloatTypes == {"FLOAT", "DOUBLE"}

\* The quiet NaN of the float and double types.
NaN == -99999

\* A mutant of gal_data_sizeof: the label of the logical type is missing.
gal_data_sizeof_nological(type) ==
  CASE type \in {"UCHAR", "CHAR"} -> 1
    [] type \in {"USHORT", "SHORT"} -> 2
    [] type \in {"UINT", "INT", "FLOAT"} -> 4
    [] type \in {"STRING", "ULONG", "LONG", "LONGLONG", "DOUBLE", "COMPLEX"} -> 8
    [] type = "DCOMPLEX" -> 16
    [] OTHER -> 0

\* gal_data_sizeof on an LP64 host; 0 stands for the call to error().
gal_data_sizeof(type) ==
  CASE type \in {"UCHAR", "CHAR", "LOGICAL"} -> 1
    [] type \in {"USHORT", "SHORT"} -> 2
    [] type \in {"UINT", "INT", "FLOAT"} -> 4
    [] type \in {"STRING", "ULONG", "LONG", "LONGLONG", "DOUBLE", "COMPLEX"} -> 8
    [] type = "DCOMPLEX" -> 16
    [] OTHER -> 0

\* The GAL_DATA_BLANK_<TYPE> macros.
GAL_DATA_BLANK(type) ==
  CASE type = "UCHAR" -> 255
    [] type \in {"CHAR", "LOGICAL"} -> 127
    [] type = "STRING" -> 0
    [] type \in {"USHORT", "UINT", "ULONG"} -> 65535
    [] type \in {"SHORT", "INT", "LONG", "LONGLONG"} -> -32768
    [] type \in FloatTypes -> NaN
    [] type \in ComplexTypes -> <<NaN, NaN>>
    [] OTHER -> 0

\* The value a zeroed buffer holds in each element.
ZeroOf(type) == IF type \in ComplexTypes THEN <<0, 0>> ELSE 0

\* A value that is neither zero nor blank.
OneOf(type) == IF type \in ComplexTypes THEN <<1, 0>> ELSE 1

\* The element values the model puts into a buffer of the type.
Values(type) == {ZeroOf(type), OneOf(type), GAL_DATA_BLANK(type)}

\* The buffers of n elements.
Contents(type, n) == [1..n -> Values(type)]

\* A mutant of SizeLoop: the loop stops one extent early.
RECURSIVE SizeLoop_short(_, _, _)
SizeLoop_short(dsize, i, size) ==
  IF i >= Len(dsize) THEN size
  ELSE SizeLoop_short(dsize, i + 1, size * dsize[i])

\* The loop of gal_data_alloc over the extents, from extent i on:
\* `out->size *= ( out->dsize[i] = dsize[i] )'.
RECURSIVE SizeLoop(_, _, _)
SizeLoop(dsize, i, size) ==
  IF i > Len(dsize) THEN size ELSE SizeLoop(dsize, i + 1, size * dsize[i])

(***************************************************************************)
(* gal_data_t.  `array' is the buffer's content; `arrayok' is FALSE when   *)
(* the array pointer is MAP_FAILED.  `size' is a size_t: a product that    *)
(* is negative here stands for its value modulo 2^64, which is above 2^63. *)
(***************************************************************************)
NoArray ==
  [type |-> "NONE", ndim |-> 0, dsize |-> <<>>, size |-> 0, array |-> <<>>,
   arrayok |-> FALSE, anyblank |-> FALSE, wcs |-> 0, mmapped |-> FALSE,
   mmapname |-> 0]

Live(h) == arrays[h] # NoArray

\* The allocations of a structure: its heap blocks ("struct", "dsize",
\* "array", "mmapname") and its mapping of the backing file ("mapping").  A
\* mapping that stays behind a released structure is not told apart from
\* the mapping of the next structure of the same handle.
Block(id, part) == <<id, part>>

\* The last library call: its name, how it ended ("ok", "hang", or the
\* error it ended the process with), the handles and arguments it was given.
NoLast ==
  [op |-> "none", outcome |-> "none", h |-> 0, h2 |-> 0, type |-> "NONE",
   dsize |-> <<>>, map |-> FALSE, fault |-> "none", value |-> 0,
   key |-> "none", lineno |-> 0]

(***************************************************************************)
(* The scratch directory.  disk maps the name of each file of the          *)
(* directory to its length in bytes.                                       *)
(***************************************************************************)
\* The name mkstemp gives: one that no file of the directory has.  The
\* names are interchangeable, so the model takes the least.
NewName(d) ==
  CHOOSE n \in FileNames \ DOMAIN d : \A m \in FileNames \ DOMAIN d : n <= m

WithFile(d, name, len) ==
  [n \in DOMAIN d \cup {name} |-> IF n = name THEN len ELSE d[n]]

WithoutFile(d, name) == [n \in DOMAIN d \ {name} |-> d[n]]

\* The environment failures a call of gal_data_alloc can meet.
Faults ==
  {"none", "malloc_struct", "malloc_dsize", "malloc_array", "mkstemp",
   "lseek", "write", "mmap", "close"}

\* The result of an allocation that called error().
AllocFailed(outcome, d, hp) ==
  [outcome |-> outcome, disk |-> d, heap |-> hp, data |-> NoArray]

(***************************************************************************)
(* gal_data_mmap: the file name is allocated, mkstemp creates the file,    *)
(* lseek and a write of one byte extend it, mmap maps it and the           *)
(* descriptor is closed.  The result of mmap is not tested.                *)
(***************************************************************************)
gal_data_mmap(d, hp, id, data, fault) ==
  LET bsize == data.size * gal_data_sizeof(data.type)
      name == NewName(d)
      hp1 == hp \cup {Block(id, "mmapname")}
      created == WithFile(d, name, 0)
      written == WithFile(d, name, bsize + 1)
      hp2 == IF fault = "mmap" THEN hp1 ELSE hp1 \cup {Block(id, "mapping")}
  IN  IF gal_data_sizeof(data.type) = 0
        THEN AllocFailed("UnsupportedKind", d, hp)
      ELSE IF fault = "mkstemp"
        THEN AllocFailed("StorageBackendFailure", d, hp1)
      ELSE IF fault = "lseek" \/ bsize < 0
        THEN AllocFailed("StorageBackendFailure", created, hp1)
      ELSE IF fault = "write"
        THEN AllocFailed("StorageBackendFailure", created, hp1)
      ELSE IF fault = "close"
        THEN AllocFailed("StorageBackendFailure", written, hp2)
      ELSE [outcome |-> "ok", disk |-> written, heap |-> hp2,
            data |-> [data EXCEPT
                        !.array = IF fault = "mmap" THEN <<>>
                                  ELSE [i \in 1..data.size |-> ZeroOf(data.type)],
                        !.arrayok = (fault # "mmap"),
                        !.mmapped = TRUE,
                        !.mmapname = name]]

\* A mutant of FirstZero: only the first extent is tested.
FirstZero_first(dsize) == IF dsize[1] = 0 THEN 1 ELSE 0

\* The index of the first extent that is 0, or 0 when there is none: where
\* the loop of gal_data_alloc calls error().
FirstZero(dsize) ==
  IF \E i \in 1..Len(dsize) : dsize[i] = 0
    THEN CHOOSE i \in 1..Len(dsize) :
           dsize[i] = 0 /\ \A j \in 1..(i - 1) : dsize[j] # 0
    ELSE 0

(***************************************************************************)
(* gal_data_alloc.  `garbage' is what an uncleared malloc'ed buffer holds. *)
(* The test after the allocation of dsize looks at `out', not at           *)
(* `out->dsize': a failed allocation of dsize goes on to the loop, which   *)
(* writes through the null pointer unless the first extent is 0.           *)
(***************************************************************************)
gal_data_alloc(d, hp, id, type, dsize, clear, map, garbage, fault) ==
  LET hp1 == hp \cup {Block(id, "struct")}
      hp2 == IF fault = "malloc_dsize" THEN hp1
             ELSE hp1 \cup {Block(id, "dsize")}
      size == SizeLoop(dsize, 1, 1)
      out == [type |-> type, ndim |-> Len(dsize), dsize |-> dsize,
              size |-> size, array |-> <<>>, arrayok |-> FALSE,
              anyblank |-> FALSE, wcs |-> 0, mmapped |-> FALSE,
              mmapname |-> 0]
  IN  IF fault = "malloc_struct"
        THEN AllocFailed("OutOfMemory", d, hp)
      ELSE IF fault = "malloc_dsize" /\ Len(dsize) > 0 /\ dsize[1] # 0
        THEN AllocFailed("Segfault", d, hp2)
      ELSE IF FirstZero(dsize) # 0
        THEN AllocFailed("InvalidShape", d, hp2)
      ELSE IF map
        THEN gal_data_mmap(d, hp2, id, out, fault)
      ELSE IF gal_data_sizeof(type) = 0
        THEN AllocFailed("UnsupportedKind", d, hp2)
      ELSE IF fault = "malloc_array" \/ size * gal_data_sizeof(type) < 0
        THEN AllocFailed("OutOfMemory", d, hp2)
      ELSE [outcome |-> "ok", disk |-> d,
            heap |-> hp2 \cup {Block(id, "array")},
            data |-> [out EXCEPT
                        !.array = IF clear
                                    THEN [i \in 1..size |-> ZeroOf(type)]
                                    ELSE garbage,
                        !.arrayok = TRUE]]

(***************************************************************************)
(* gal_data_free.  The mapping of a mapped array is not unmapped: the file *)
(* is removed and the name freed.                                          *)
(***************************************************************************)
FreeHeap(hp, id, data) ==
  hp \ ({Block(id, "dsize"), Block(id, "struct")}
        \cup (IF data.mmapped THEN {Block(id, "mmapname")}
              ELSE {Block(id, "array")}))

\* The calls gal_data_free makes, in their order.
FreeSteps(data) ==
  (IF data.wcs # 0 THEN <<"wcsfree">> ELSE <<>>)
  \o <<"free_dsize">>
  \o (IF data.mmapped THEN <<"remove", "free_mmapname">>
      ELSE <<"free_array">>)
  \o <<"free_struct">>

\* A mutant of FreeDisk: the file is not removed.
FreeDisk_keep(d, data) == d

FreeDisk(d, data) ==
  IF data.mmapped THEN WithoutFile(d, data.mmapname) ELSE d

(***************************************************************************)
(* gal_data_alloc_blank: one element is allocated with                     *)
(* gal_data_malloc_array, which asks gal_data_sizeof for the width, and    *)
(* the switch writes the blank value of the type into it.                  *)
(***************************************************************************)
\* The case labels of the switch that write a value.
BlankCases ==
  {"UCHAR", "CHAR", "LOGICAL", "STRING", "USHORT", "SHORT", "UINT", "INT",
   "ULONG", "LONG", "LONGLONG", "FLOAT", "DOUBLE", "COMPLEX", "DCOMPLEX"}

\* The block the caller of gal_data_alloc_blank receives.
BlankBlock == Block(0, "blank")

gal_data_alloc_blank(hp, type, fault) ==
  IF gal_data_sizeof(type) = 0
    THEN [outcome |-> "UnsupportedKind", heap |-> hp, value |-> 0]
  ELSE IF fault = "malloc_array"
    THEN [outcome |-> "OutOfMemory", heap |-> hp, value |-> 0]
  ELSE IF type \in BlankCases
    THEN [outcome |-> "ok", heap |-> hp \cup {BlankBlock},
          value |-> GAL_DATA_BLANK(type)]
  ELSE [outcome |-> "UnsupportedKind", heap |-> hp \cup {BlankBlock},
        value |-> 0]

(***************************************************************************)
(* Conversion of one element (the gal_changetype_out_is_<type> routines    *)
(* of changetype.c): a C cast.  A NaN or an out-of-range floating point    *)
(* value cast to an integer type is undefined: `ub' chooses between the    *)
(* wrapped value and the least value of the type.                          *)
(***************************************************************************)
Lo(type) ==
  CASE type = "UCHAR" -> 0
    [] type = "CHAR" -> -128
    [] type \in {"USHORT", "UINT", "ULONG"} -> 0
    [] OTHER -> -32768

Hi(type) ==
  CASE type = "UCHAR" -> 255
    [] type = "CHAR" -> 127
    [] type \in {"USHORT", "UINT", "ULONG"} -> 65535
    [] OTHER -> 32767

Wrap(type, v) == Lo(type) + ((v - Lo(type)) % (Hi(type) - Lo(type) + 1))

UBChoices == {"wrap", "least"}

Cast(src, dst, v, ub) ==
  IF dst \in FloatTypes THEN v
  ELSE IF src \in FloatTypes /\ (v = NaN \/ v < Lo(dst) \/ v > Hi(dst))
    THEN IF ub = "least" THEN Lo(dst)
         ELSE IF v = NaN THEN 0 ELSE Wrap(dst, v)
  ELSE Wrap(dst, v)

\* The source types the conversion routines dispatch on.
ChangeSources == ChangeTypes

(***************************************************************************)
(* gal_data_copy_to_new_type: the output is allocated first, with the      *)
(* input's extents and the input's mmapped flag, and then filled by the    *)
(* routine of the new type; a new type without a routine calls error()     *)
(* after the allocation.                                                   *)
(***************************************************************************)
\* A mutant of gal_data_copy_to_new_type: the output is always allocated
\* on the heap.
gal_data_copy_to_new_type_heap(d, hp, id, in, newtype, ub) ==
  LET a == gal_data_alloc(d, hp, id, newtype, in.dsize, FALSE, FALSE,
                          [i \in 1..in.size |-> 0], "none")
  IN  IF a.outcome # "ok" THEN a
      ELSE IF newtype \notin ChangeTypes
        THEN AllocFailed("UnsupportedKind", a.disk, a.heap)
      ELSE IF in.type \notin ChangeSources
        THEN AllocFailed(IF in.type = "STRING" THEN "UnsupportedConversion"
                         ELSE "UnsupportedKind", a.disk, a.heap)
      ELSE IF ~in.arrayok
        THEN AllocFailed("Segfault", a.disk, a.heap)
      ELSE [a EXCEPT
              !.data.array =
                [i \in 1..in.size |-> Cast(in.type, newtype, in.array[i], ub)]]

\* A mutant of gal_data_copy_to_new_type: the output takes the input's
\* anyblank flag and the input's wcs pointer.
gal_data_copy_to_new_type_inherit(d, hp, id, in, newtype, ub) ==
  LET a == gal_data_alloc(d, hp, id, newtype, in.dsize, FALSE, in.mmapped,
                          [i \in 1..in.size |-> 0], "none")
  IN  IF a.outcome # "ok" THEN a
      ELSE IF newtype \notin ChangeTypes
        THEN AllocFailed("UnsupportedKind", a.disk, a.heap)
      ELSE IF in.type \notin ChangeSources
        THEN AllocFailed(IF in.type = "STRING" THEN "UnsupportedConversion"
                         ELSE "UnsupportedKind", a.disk, a.heap)
      ELSE IF ~in.arrayok
        THEN AllocFailed("Segfault", a.disk, a.heap)
      ELSE [a EXCEPT
              !.data.array =
                [i \in 1..in.size |-> Cast(in.type, newtype, in.array[i], ub)],
              !.data.anyblank = in.anyblank,
              !.data.wcs = in.wcs]

gal_data_copy_to_new_type(d, hp, id, in, newtype, ub) ==
  LET a == gal_data_alloc(d, hp, id, newtype, in.dsize, FALSE, in.mmapped,
                          [i \in 1..in.size |-> 0], "none")
  IN  IF a.outcome # "ok" THEN a
      ELSE IF newtype \notin ChangeTypes
        THEN AllocFailed("UnsupportedKind", a.disk, a.heap)
      ELSE IF in.type \notin ChangeSources
        THEN AllocFailed(IF in.type = "STRING" THEN "UnsupportedConversion"
                         ELSE "UnsupportedKind", a.disk, a.heap)
      ELSE IF ~in.arrayok
        THEN AllocFailed("Segfault", a.disk, a.heap)
      ELSE [a EXCEPT
              !.data.array =
                [i \in 1..in.size |-> Cast(in.type, newtype, in.array[i], ub)]]

(***************************************************************************)
(* gal_data_dsize_is_different.                                            *)
(***************************************************************************)
\* A mutant of gal_data_dsize_is_different: `>' for `!='.
gal_data_dsize_is_different_gt(first, second) ==
  IF first.ndim # second.ndim THEN 1
  ELSE IF \E i \in 1..first.ndim : first.dsize[i] > second.dsize[i] THEN 1
  ELSE 0

\* A mutant of gal_data_dsize_is_different: the loop over the extents is
\* missing.
gal_data_dsize_is_different_ndim(first, second) ==
  IF first.ndim # second.ndim THEN 1 ELSE 0

gal_data_dsize_is_different(first, second) ==
  IF first.ndim # second.ndim THEN 1
  ELSE IF \E i \in 1..first.ndim : first.dsize[i] # second.dsize[i] THEN 1
  ELSE 0

\* The indices (counted from 1) at which the loop of
\* gal_data_dsize_is_different reads dsize of both structures: none when
\* ndim differs, and otherwise each index up to the first difference.
DsizeReads(first, second) ==
  IF first.ndim # second.ndim THEN {}
  ELSE {i \in 1..first.ndim :
          \A j \in 1..(i - 1) : first.dsize[j] = second.dsize[j]}

(***************************************************************************)
(* The loops of gal_data_apply_mask.                                       *)
(***************************************************************************)
\* A mutant of MaskHasBlank: `==' for `!='.
MaskHasBlank_eq(mpt, size) == \E i \in 1..size : mpt[i] = 0

\* `do if(*m++ != 0.0f) hasblank=1; while(m<mf);' over in->size elements.
MaskHasBlank(mpt, size) == \E i \in 1..size : mpt[i] # 0

\* One element of the loop of the array's type.  The loops of the two
\* complex types write the blank value where the mask is 0.0f.
MaskedElement(type, x, m) ==
  IF type \in ComplexTypes
    THEN IF m = 0 THEN GAL_DATA_BLANK(type) ELSE x
    ELSE IF m = 0 THEN x ELSE GAL_DATA_BLANK(type)

\* Whether the loop of the array's type reads or writes an element of the
\* target: each iteration of `*x = *mpt++ == 0.0f ? *x : BLANK' does, an
\* iteration of a complex loop does where the mask is 0.0f.
TargetTouched(type, mpt, size) ==
  IF type \in ComplexTypes THEN \E i \in 1..size : mpt[i] = 0
  ELSE TRUE

MaskedArray(in, mpt) ==
  [i \in 1..in.size |-> MaskedElement(in.type, in.array[i], mpt[i])]

(***************************************************************************)
(* The loops of gal_data_blank_to_value.                                   *)
(***************************************************************************)
\* The test of each loop: equality with the blank value, isnan for the
\* floating point types, isnan of both parts for the complex types.
IsBlankValue(type, x) ==
  IF type \in ComplexTypes THEN x[1] = NaN /\ x[2] = NaN
  ELSE x = GAL_DATA_BLANK(type)

\* The end pointers are A+S with A a void pointer: S bytes after the start,
\* so the typed pointer at element p is below the end while p*width < S.
BelowEnd(type, p, S) == p * gal_data_sizeof(type) < S

\* The loop `do if(*x==BLANK) *x++=v; while(x<xf);' from element p (counted
\* from 0): the pointer moves only when the element is blank, so the loop
\* does not end once it meets an element that is not blank below the end.
RECURSIVE BlankLoop(_, _, _, _, _)
BlankLoop(type, a, p, S, v) ==
  IF IsBlankValue(type, a[p + 1])
    THEN IF BelowEnd(type, p + 1, S)
           THEN BlankLoop(type, [a EXCEPT ![p + 1] = v], p + 1, S, v)
           ELSE [array |-> [a EXCEPT ![p + 1] = v], outcome |-> "ok"]
    ELSE IF BelowEnd(type, p, S) THEN [array |-> a, outcome |-> "hang"]
    ELSE [array |-> a, outcome |-> "ok"]

\* The loop of the complex types, `do if(...) SET; while(++cx<cxf);'.
RECURSIVE ComplexLoop(_, _, _, _, _)
ComplexLoop(type, a, p, S, v) ==
  LET b == IF IsBlankValue(type, a[p + 1]) THEN [a EXCEPT ![p + 1] = v]
           ELSE a
  IN  IF BelowEnd(type, p + 1, S) THEN ComplexLoop(type, b, p + 1, S, v)
      ELSE [array |-> b, outcome |-> "ok"]

\* The bytes after the caller's value object: they can be read, or the
\* object ends where the readable memory ends.
ValueReads == {"readable", "fault"}

\* The widest read of `*value' in the declarations of
\* gal_data_blank_to_value: `*(gsl_complex *) value'.
ValueReadWidth == 16

\* The switch of gal_data_blank_to_value.  The value is read through a
\* pointer of each type before the switch, whatever the array's type is:
\* for a value object of the array's type that is narrower than the widest
\* read this is a read beyond the object, which faults or not (`after').
\* The model gives the value in the array's type.
BlankToValue(data, v, after) ==
  IF after = "fault" /\ gal_data_sizeof(data.type) < ValueReadWidth
    THEN [array |-> data.array, outcome |-> "Segfault"]
  ELSE IF ~data.arrayok
    THEN [array |-> data.array, outcome |-> "Segfault"]
  ELSE IF data.type \in ComplexTypes
    THEN ComplexLoop(data.type, data.array, 0, data.size, v)
    ELSE BlankLoop(data.type, data.array, 0, data.size, v)

(***************************************************************************)
(* The numbers of the Statistics program's options (bin/statistics/ui.c).  *)
(* A double is counted in halves: the integer n stands for n/2.  The       *)
(* fields of the parameters are NaN until an option sets them.             *)
(***************************************************************************)
\* The number 1.0.
Unit == 2

\* The comparisons of doubles: each is false when an operand is NaN.
IsNan(x) == x = NaN
LessEq(x, y) == ~IsNan(x) /\ ~IsNan(y) /\ x <= y
Less(x, y) == ~IsNan(x) /\ ~IsNan(y) /\ x < y

\* ceil().
Ceil(x) == IF IsNan(x) THEN NaN ELSE (-((-x) \div Unit)) * Unit

\* The fields ui_initialize_options sets to NAN and ui_parse_numbers writes.
NoParams ==
  [sigclipmultip |-> NaN, sigclipparam |-> NaN, quantmin |-> NaN,
   quantmax |-> NaN, lessthan |-> NaN, greaterequal |-> NaN,
   input |-> <<>>, sorted |-> <<>>]

\* The numbers gal_options_parse_list_of_numbers reads from an option's
\* value: -1, 0, 0.5, 1, 1.5 and 2.
Numbers == {-2, 0, 1, 2, 3, 4}

\* The lists of numbers it returns.
NumberLists == UNION {[1..n -> Numbers] : n \in 1..MaxNumbers}

\* A mutant of ui_parse_sigmaclip: `<' for `<=' in the test of the second
\* value.
ui_parse_sigmaclip_lt(prm, in) ==
  LET read == [prm EXCEPT !.sigclipparam = in[2], !.sigclipmultip = in[1]]
  IN  IF Len(in) # 2
        THEN [outcome |-> "OptionError", params |-> prm]
      ELSE IF LessEq(read.sigclipmultip, 0)
        THEN [outcome |-> "OptionError", params |-> read]
      ELSE IF Less(read.sigclipparam, 0)
        THEN [outcome |-> "OptionError", params |-> read]
      ELSE IF /\ LessEq(Unit, read.sigclipparam)
              /\ Ceil(read.sigclipparam) # read.sigclipparam
        THEN [outcome |-> "OptionError", params |-> read]
      ELSE [outcome |-> "ok", params |-> read]

\* The case ARGS_OPTION_KEY_SIGMACLIP of ui_parse_numbers: the two values
\* are stored and then tested.
ui_parse_sigmaclip(prm, in) ==
  LET read == [prm EXCEPT !.sigclipparam = in[2], !.sigclipmultip = in[1]]
  IN  IF Len(in) # 2
        THEN [outcome |-> "OptionError", params |-> prm]
      ELSE IF LessEq(read.sigclipmultip, 0)
        THEN [outcome |-> "OptionError", params |-> read]
      ELSE IF LessEq(read.sigclipparam, 0)
        THEN [outcome |-> "OptionError", params |-> read]
      ELSE IF /\ LessEq(Unit, read.sigclipparam)
              /\ Ceil(read.sigclipparam) # read.sigclipparam
        THEN [outcome |-> "OptionError", params |-> read]
      ELSE [outcome |-> "ok", params |-> read]

\* The case ARGS_OPTION_KEY_QRANGE: one or two values; the sanity check of
\* a single value stands after the `break' and is never executed.
ui_parse_qrange(prm, in) ==
  LET read == [prm EXCEPT !.quantmin = in[1],
                          !.quantmax = IF Len(in) = 2 THEN in[2] ELSE @]
  IN  IF Len(in) # 1 /\ Len(in) # 2
        THEN [outcome |-> "OptionError", params |-> prm]
      ELSE IF \/ Less(read.quantmin, 0)
              \/ Less(Unit, read.quantmin)
              \/ /\ ~IsNan(read.quantmax)
                 /\ (Less(read.quantmax, 0) \/ Less(Unit, read.quantmax))
        THEN [outcome |-> "OptionError", params |-> read]
      ELSE [outcome |-> "ok", params |-> read]

\* The option keys ui_parse_numbers is registered for, and another key.
NumberKeys == {"SIGMACLIP", "QRANGE"}
OptionKeys == NumberKeys \cup {"OTHER"}

(***************************************************************************)
(* The state machine: the calls a program makes on the library.            *)
(***************************************************************************)
Init ==
  /\ arrays = [h \in Handles |-> NoArray]
  /\ heap = {}
  /\ disk = <<>>
  /\ status = "running"
  /\ last = NoLast
  /\ params = NoParams
  /\ pc = <<>>

\* How the process goes on after a call that ended with `outcome'.
StatusAfter(outcome) ==
  CASE outcome = "ok" -> "running"
    [] outcome = "hang" -> "hung"
    [] OTHER -> "exited"

NameLeft == FileNames \ DOMAIN disk # {}

\* The failures an allocation of the given backend can meet.
FaultsOf(map) ==
  IF map
    THEN Faults \ {"malloc_array"}
    ELSE {"none", "malloc_struct", "malloc_dsize", "malloc_array"}

\* What an uncleared buffer can hold; a buffer that is cleared, mapped or
\* never allocated has no garbage to choose.
GarbageOf(type, dsize, clear, map) ==
  IF ~clear /\ ~map /\ gal_data_sizeof(type) # 0 /\ FirstZero(dsize) = 0
     /\ SizeLoop(dsize, 1, 1) > 0
    THEN Contents(type, SizeLoop(dsize, 1, 1))
    ELSE {<<>>}

\* The caller allocates a data structure into the free handle h.
allocate(h, type, dsize, clear, map, fault) ==
  /\ status = "running"
  /\ UNCHANGED <<params, pc>>
  /\ ~Live(h)
  /\ map => NameLeft
  /\ \E garbage \in GarbageOf(type, dsize, clear, map) :
       LET r == gal_data_alloc(disk, heap, h, type, dsize, clear, map,
                               garbage, fault)
       IN  /\ arrays' = [arrays EXCEPT ![h] = r.data]
           /\ heap' = r.heap
           /\ disk' = r.disk
           /\ status' = StatusAfter(r.outcome)
           /\ last' = [NoLast EXCEPT !.op = "alloc", !.outcome = r.outcome,
                         !.h = h, !.type = type, !.dsize = dsize,
                         !.map = map, !.fault = fault]

\* The caller writes one element of a structure it holds.
store(h, i, v) ==
  /\ status = "running"
  /\ UNCHANGED <<params, pc>>
  /\ Live(h)
  /\ arrays[h].arrayok
  /\ i \in 1..arrays[h].size
  /\ arrays' = [arrays EXCEPT ![h].array[i] = v]
  /\ last' = [NoLast EXCEPT !.op = "store", !.outcome = "ok"]
  /\ UNCHANGED <<heap, disk, status>>

\* The caller attaches a WCS structure of its own to a structure it holds
\* (data->wcs = wcs): the field is the caller's to set, the library only
\* clears it in gal_data_alloc and reads it in gal_data_free.  The WCS
\* structure is named by the handle it was attached to.
setWcs(h) ==
  /\ status = "running"
  /\ UNCHANGED <<params, pc>>
  /\ Live(h)
  /\ arrays[h].wcs = 0
  /\ arrays' = [arrays EXCEPT ![h].wcs = h]
  /\ last' = [NoLast EXCEPT !.op = "set_wcs", !.outcome = "ok", !.h = h]
  /\ UNCHANGED <<heap, disk, status>>

\* gal_data_free(arrays[h]).
free(h) ==
  /\ status = "running"
  /\ UNCHANGED <<params, pc>>
  /\ Live(h)
  /\ arrays' = [arrays EXCEPT ![h] = NoArray]
  /\ heap' = FreeHeap(heap, h, arrays[h])
  /\ disk' = FreeDisk(disk, arrays[h])
  /\ last' = [NoLast EXCEPT !.op = "free", !.outcome = "ok", !.h = h,
                !.map = arrays[h].mmapped, !.value = FreeSteps(arrays[h])]
  /\ UNCHANGED status

\* gal_data_blank_to_value(arrays[h], &v).
replaceBlanks(h, v, after) ==
  /\ status = "running"
  /\ UNCHANGED <<params, pc>>
  /\ Live(h)
  /\ LET r == BlankToValue(arrays[h], v, after)
     IN  /\ arrays' = [arrays EXCEPT ![h].array = r.array]
         /\ status' = StatusAfter(r.outcome)
         /\ last' = [NoLast EXCEPT !.op = "blank_to_value",
                       !.outcome = r.outcome, !.h = h, !.value = v]
  /\ UNCHANGED <<heap, disk>>

\* A mutant of convert: the conversion takes its input over and releases it.
convert_owning(h, o, newtype, ub) ==
  /\ status = "running"
  /\ UNCHANGED <<params, pc>>
  /\ Live(h)
  /\ ~Live(o)
  /\ arrays[h].mmapped => NameLeft
  /\ LET r == gal_data_copy_to_new_type(disk, heap, o, arrays[h], newtype, ub)
     IN  /\ arrays' = [arrays EXCEPT ![o] = r.data, ![h] = NoArray]
         /\ heap' = FreeHeap(r.heap, h, arrays[h])
         /\ disk' = FreeDisk(r.disk, arrays[h])
         /\ status' = StatusAfter(r.outcome)
         /\ last' = [NoLast EXCEPT !.op = "copy_to_new_type",
                       !.outcome = r.outcome, !.h = h, !.h2 = o,
                       !.type = newtype]

\* out = gal_data_copy_to_new_type(arrays[h], newtype), kept in the free
\* handle o.
convert(h, o, newtype, ub) ==
  /\ status = "running"
  /\ UNCHANGED <<params, pc>>
  /\ Live(h)
  /\ ~Live(o)
  /\ arrays[h].mmapped => NameLeft
  /\ LET r == gal_data_copy_to_new_type(disk, heap, o, arrays[h], newtype, ub)
     IN  /\ arrays' = [arrays EXCEPT ![o] = r.data]
         /\ heap' = r.heap
         /\ disk' = r.disk
         /\ status' = StatusAfter(r.outcome)
         /\ last' = [NoLast EXCEPT !.op = "copy_to_new_type",
                       !.outcome = r.outcome, !.h = h, !.h2 = o,
                       !.type = newtype]

\* gal_data_sizeof(type).
sizeOf(type) ==
  /\ status = "running"
  /\ UNCHANGED <<params, pc>>
  /\ LET w == gal_data_sizeof(type)
         outcome == IF w = 0 THEN "UnsupportedKind" ELSE "ok"
     IN  /\ status' = StatusAfter(outcome)
         /\ last' = [NoLast EXCEPT !.op = "sizeof", !.outcome = outcome,
                       !.type = type, !.value = w]
  /\ UNCHANGED <<arrays, heap, disk>>

\* blank = gal_data_alloc_blank(type).
allocBlank(type, fault) ==
  /\ status = "running"
  /\ UNCHANGED <<params, pc>>
  /\ BlankBlock \notin heap
  /\ LET r == gal_data_alloc_blank(heap, type, fault)
     IN  /\ heap' = r.heap
         /\ status' = StatusAfter(r.outcome)
         /\ last' = [NoLast EXCEPT !.op = "alloc_blank",
                       !.outcome = r.outcome, !.type = type,
                       !.fault = fault, !.value = r.value]
  /\ UNCHANGED <<arrays, disk>>

\* The caller's free(blank).
freeBlank ==
  /\ status = "running"
  /\ UNCHANGED <<params, pc>>
  /\ BlankBlock \in heap
  /\ heap' = heap \ {BlankBlock}
  /\ last' = [NoLast EXCEPT !.op = "free_blank", !.outcome = "ok"]
  /\ UNCHANGED <<arrays, disk, status>>

\* The identifier of the temporary structure of gal_data_apply_mask: one
\* that owns no block of the heap.
TempFree == {t \in TempIds : \A b \in heap : b[1] # t}

(***************************************************************************)
(* gal_data_apply_mask(arrays[t], arrays[m]).  The mask is converted to    *)
(* float unless it is float; the converted structure is released with      *)
(* free(), not gal_data_free(): its dsize, and its buffer or its file name *)
(* and file, stay.  The scan for a mask element that is not 0 reads the    *)
(* mask only; the target's buffer is touched after anyblank is set, by     *)
(* every iteration of the loop of a type that is not complex and by the    *)
(* iterations of a complex loop that meet a mask element of 0.             *)
(***************************************************************************)
ApplyMask(d, hp, in, mask, tmp) ==
  LET same == [outcome |-> "ShapeMismatch", disk |-> d, heap |-> hp,
               data |-> in]
      conv == IF mask.type = "FLOAT"
                THEN [outcome |-> "ok", disk |-> d, heap |-> hp, data |-> mask]
                ELSE gal_data_copy_to_new_type(d, hp, tmp, mask, "FLOAT",
                                               "wrap")
      released == IF mask.type = "FLOAT" THEN conv.heap
                  ELSE conv.heap \ {Block(tmp, "struct")}
  IN  IF in.ndim # mask.ndim THEN same
      ELSE IF gal_data_dsize_is_different(in, mask) # 0 THEN same
      ELSE IF conv.outcome # "ok"
        THEN [outcome |-> conv.outcome, disk |-> conv.disk,
              heap |-> conv.heap, data |-> in]
      ELSE IF ~conv.data.arrayok
        THEN [outcome |-> "Segfault", disk |-> conv.disk, heap |-> conv.heap,
              data |-> in]
      ELSE IF ~MaskHasBlank(conv.data.array, in.size)
        THEN [outcome |-> "ok", disk |-> conv.disk, heap |-> released,
              data |-> in]
      ELSE IF in.arrayok
        THEN [outcome |-> "ok", disk |-> conv.disk, heap |-> released,
              data |-> [in EXCEPT !.anyblank = TRUE,
                                  !.array = MaskedArray(in, conv.data.array)]]
      ELSE IF TargetTouched(in.type, conv.data.array, in.size)
        THEN [outcome |-> "Segfault", disk |-> conv.disk, heap |-> conv.heap,
              data |-> [in EXCEPT !.anyblank = TRUE]]
      ELSE [outcome |-> "ok", disk |-> conv.disk, heap |-> released,
            data |-> [in EXCEPT !.anyblank = TRUE]]

applyMask(t, m) ==
  /\ status = "running"
  /\ UNCHANGED <<params, pc>>
  /\ t # m
  /\ Live(t)
  /\ Live(m)
  /\ \/ arrays[t].ndim # arrays[m].ndim
     \/ gal_data_dsize_is_different(arrays[t], arrays[m]) # 0
     \/ arrays[m].type = "FLOAT"
     \/ TempFree # {} /\ (arrays[m].mmapped => NameLeft)
  /\ LET tmp == CHOOSE x \in TempFree : \A y \in TempFree : x <= y
         r == ApplyMask(disk, heap, arrays[t], arrays[m], tmp)
     IN  /\ arrays' = [arrays EXCEPT ![t] = r.data]
         /\ heap' = r.heap
         /\ disk' = r.disk
         /\ status' = StatusAfter(r.outcome)
         /\ last' = [NoLast EXCEPT !.op = "apply_mask", !.outcome = r.outcome,
                       !.h = t, !.h2 = m]

\* ui_parse_numbers(option, arg, filename, lineno, p), with `in' the list
\* the parser reads from arg.  With lineno == -1 the values are printed and
\* nothing is parsed.  The list `in' is the parser's and is not released
\* here.
ui_parse_numbers(key, lineno, in) ==
  /\ status = "running"
  /\ LET r == IF lineno = -1
                THEN [outcome |-> IF key \in NumberKeys THEN "ok" ELSE "Bug",
                      params |-> params]
              ELSE IF key = "SIGMACLIP" THEN ui_parse_sigmaclip(params, in)
              ELSE IF key = "QRANGE" THEN ui_parse_qrange(params, in)
              ELSE [outcome |-> "Bug", params |-> params]
     IN  /\ params' = r.params
         /\ status' = StatusAfter(r.outcome)
         /\ last' = [NoLast EXCEPT !.op = "parse_numbers",
                       !.outcome = r.outcome, !.key = key,
                       !.lineno = lineno,
                       !.value = IF lineno = -1 THEN <<>> ELSE in]
  /\ UNCHANGED <<arrays, heap, disk, pc>>

(***************************************************************************)
(* Spec: every call in every order on the handles, on both backends, on    *)
(* one type of each family (a one-byte integer, float, string, complex);   *)
(* the caller writes the first element of a buffer only.                   *)
(***************************************************************************)
LiveShapes == {<<1>>, <<2>>, <<1, 1>>}
LifeTypes == {"UCHAR", "FLOAT", "STRING", "COMPLEX"}

Next ==
  \/ \E h \in Handles, type \in LifeTypes, dsize \in LiveShapes,
        map \in BOOLEAN :
       allocate(h, type, dsize, TRUE, map, "none")
  \/ \E h \in Handles : store(h, 1, OneOf(arrays[h].type))
  \/ \E h \in Handles : free(h)
  \/ \E h \in Handles, after \in ValueReads :
       replaceBlanks(h, OneOf(arrays[h].type), after)
  \/ \E h \in Handles, o \in Handles, newtype \in LifeTypes \cup {"BIT"} :
       convert(h, o, newtype, "wrap")
  \/ \E t \in Handles, m \in Handles : applyMask(t, m)

Spec == Init /\ [][Next]_vars

(***************************************************************************)
(* SpecAlloc: allocation with every type code, every dsize, both backends  *)
(* and every environment failure, and release; the width and the blank     *)
(* value of every type code.                                               *)
(***************************************************************************)
NextAlloc ==
  \/ \E type \in AllTypes, dsize \in Shapes, clear \in BOOLEAN,
        map \in BOOLEAN :
       \E fault \in FaultsOf(map) : allocate(1, type, dsize, clear, map, fault)
  \/ free(1)
  \/ \E type \in AllTypes : sizeOf(type)
  \/ \E type \in AllTypes, fault \in {"none", "malloc_array"} :
       allocBlank(type, fault)
  \/ freeBlank

SpecAlloc == Init /\ [][NextAlloc]_vars

(***************************************************************************)
(* SpecMask: masking of a heap target of every type, with every content,   *)
(* by a mask of a float, an integer or a string type of either backend,    *)
(* of the same or of another shape.                                        *)
(***************************************************************************)
MaskTypes == {"FLOAT", "UCHAR", "STRING"}
MaskShapes == LiveShapes \cup {<<1, 2>>}

NextMask ==
  \/ \E type \in SizedTypes, dsize \in MaskShapes :
       allocate(1, type, dsize, TRUE, FALSE, "none")
  \/ \E type \in MaskTypes, dsize \in MaskShapes, map \in BOOLEAN :
       allocate(2, type, dsize, TRUE, map, "none")
  \/ \E i \in 1..2 :
       \E v \in {ZeroOf(arrays[1].type), GAL_DATA_BLANK(arrays[1].type)} :
         store(1, i, v)
  \/ \E i \in 1..2 : \E v \in {0, 1} : store(2, i, v)
  \/ applyMask(1, 2)
  \/ \E h \in Handles : free(h)

SpecMask == Init /\ [][NextMask]_vars

(***************************************************************************)
(* SpecBlank: replacement of the blank values of one array of every type,  *)
(* with every content.                                                     *)
(***************************************************************************)
BlankShapes == {<<1>>, <<2>>, <<1, 1>>, <<2, 2>>}

NextBlank ==
  \/ \E type \in SizedTypes, dsize \in BlankShapes, clear \in BOOLEAN,
        map \in BOOLEAN :
       allocate(1, type, dsize, clear, map, "none")
  \/ \E i \in 1..4 : \E v \in Values(arrays[1].type) : store(1, i, v)
  \/ \E v \in {ZeroOf(arrays[1].type), OneOf(arrays[1].type)},
        after \in ValueReads :
       replaceBlanks(1, v, after)
  \/ free(1)

SpecBlank == Init /\ [][NextBlank]_vars

(***************************************************************************)
(* SpecConv: conversion of one array of every type, with every content     *)
(* and of either backend, to every type code.  The input is allocated and  *)
(* written before the conversion.                                          *)
(***************************************************************************)
NextConv ==
  \/ /\ ~Live(2)
     /\ \E type \in SizedTypes, dsize \in LiveShapes, clear \in BOOLEAN,
           map \in BOOLEAN :
          allocate(1, type, dsize, clear, map, "none")
  \/ /\ ~Live(2)
     /\ \E i \in 1..2 : \E v \in Values(arrays[1].type) : store(1, i, v)
  \/ \E newtype \in AllTypes, ub \in UBChoices : convert(1, 2, newtype, ub)
  \/ \E h \in Handles : free(h)

SpecConv == Init /\ [][NextConv]_vars

(***************************************************************************)
(* SpecMeta: the anyblank flag and the wcs pointer through masking,        *)
(* conversion and release, on arrays of a one-byte integer and of float    *)
(* on both backends: the first structure is masked by the second and then  *)
(* converted into the place the released mask leaves.  The mapping of the  *)
(* first structure can have failed.                                        *)
(***************************************************************************)
MetaTypes == {"UCHAR", "FLOAT"}
MetaShapes == {<<1>>, <<2>>}

NextMeta ==
  \/ \E h \in 1..2, type \in MetaTypes, dsize \in MetaShapes,
        map \in BOOLEAN :
       allocate(h, type, dsize, TRUE, map, "none")
  \/ \E type \in MetaTypes \cup {"COMPLEX"}, dsize \in MetaShapes :
       allocate(1, type, dsize, TRUE, TRUE, "mmap")
  \/ \E h \in 1..2 : store(h, 1, OneOf(arrays[h].type))
  \/ \E h \in 1..2 : setWcs(h)
  \/ applyMask(1, 2)
  \/ \E newtype \in MetaTypes : convert(1, 2, newtype, "wrap")
  \/ \E h \in 1..2 : free(h)

SpecMeta == Init /\ [][NextMeta]_vars

(***************************************************************************)
(* The preparations of the Statistics program (ui_read_check_inputs_setup  *)
(* and ui_preparations of bin/statistics/ui.c).  The library functions     *)
(* they call are those of the specification: the quantile of an array, the *)
(* removal of the blank elements, the test of sortedness and the sort.     *)
(***************************************************************************)
\* The values of the elements of the dataset: 0, 1, 2 and blank.
InputValues == {0, 2, 4, NaN}

\* The datasets gal_fits_img_read or gal_table_read returns.
InputArrays == UNION {[1..n -> InputValues] : n \in 1..MaxInput}

\* The values --lessthan and --greaterequal are given: none, 0, 1 or 2.
LimitValues == {NaN, 0, 2, 4}

\* The quantile q of the array: the value at the rank q*(n-1), interpolated
\* between the two elements around it; the array is read as it is.
Quantile(a, q) ==
  LET twice == q * (Len(a) - 1)
      lo == (twice \div Unit) + 1
  IN  IF twice % Unit = 0 THEN a[lo]
      ELSE IF IsNan(a[lo]) \/ IsNan(a[lo + 1]) THEN NaN
      ELSE (a[lo] + a[lo + 1]) \div 2

NotBlank(x) == ~IsNan(x)

\* gal_blank_remove: the elements that are not blank, in their order.
BlankRemove(a) == SelectSeq(a, NotBlank)

\* gal_statistics_is_sorted: one pass for non-decreasing order; a
\* comparison with a blank element is false.
IsSorted(a) == \A i \in 1..(Len(a) - 1) : LessEq(a[i], a[i + 1])

\* gal_statistics_sort_increasing: the elements in non-decreasing order of
\* their values (a blank element is placed as its bit pattern would not be:
\* the model puts it first).
SortIncreasing(a) ==
  CHOOSE s \in [1..Len(a) -> {a[i] : i \in 1..Len(a)}] :
    /\ \A i \in 1..(Len(a) - 1) : s[i] <= s[i + 1]
    /\ \A v \in {a[i] : i \in 1..Len(a)} :
         Cardinality({i \in 1..Len(a) : s[i] = v}) =
           Cardinality({i \in 1..Len(a) : a[i] = v})

\* ui_out_of_range_to_blank: a quantile range is turned into the two
\* limits, and the elements below greaterequal or not below lessthan are
\* set to blank.
ui_out_of_range_to_blank(prm) ==
  LET qmax == IF IsNan(prm.quantmax) THEN Unit - prm.quantmin
              ELSE prm.quantmax
      lim == IF ~IsNan(prm.quantmin)
               THEN [prm EXCEPT
                       !.quantmax = qmax,
                       !.greaterequal =
                          Cast("DOUBLE", "FLOAT",
                               Quantile(prm.input, prm.quantmin), "wrap"),
                       !.lessthan =
                          Cast("DOUBLE", "FLOAT",
                               Quantile(prm.input, qmax), "wrap")]
               ELSE prm
      out(x) == \/ ~IsNan(lim.greaterequal) /\ Less(x, lim.greaterequal)
                \/ ~IsNan(lim.lessthan) /\ LessEq(lim.lessthan, x)
  IN  [lim EXCEPT !.input = [i \in 1..Len(prm.input) |->
                              IF out(prm.input[i]) THEN NaN
                              ELSE prm.input[i]]]

\* The tests of ui_read_check_only_options on the limits and the quantile
\* range (its other tests are on options of the outputs).
ui_read_check_only_options(prm) ==
  IF /\ ~IsNan(prm.lessthan)
     /\ ~IsNan(prm.greaterequal)
     /\ Less(prm.lessthan, prm.greaterequal)
    THEN "OptionError"
  ELSE IF /\ ~IsNan(prm.lessthan) \/ ~IsNan(prm.greaterequal)
          /\ ~IsNan(prm.quantmin)
    THEN "OptionError"
  ELSE "ok"

\* A mutant of ui_preparations_calls: the sorted array is made before the
\* blank elements are removed.
ui_preparations_calls_sortfirst ==
  <<"read", "out_of_range_to_blank", "make_sorted", "blank_remove",
    "check_size">>

\* The calls of ui_preparations, in their order.
ui_preparations_calls ==
  <<"read", "out_of_range_to_blank", "blank_remove", "check_size",
    "make_sorted">>

\* The calls of ui_read_check_inputs_setup after the parsing of the options.
SetupCalls == <<"read_check_only_options">> \o ui_preparations_calls

\* The call the program makes next.
NextCall ==
  IF Len(pc) < Len(SetupCalls) THEN SetupCalls[Len(pc) + 1] ELSE "none"

\* What one call of the setup does to the parameters, and how it ends.
CallEffect(call, prm, in) ==
  CASE call = "read_check_only_options" ->
         [outcome |-> ui_read_check_only_options(prm), params |-> prm]
    [] call = "read" ->
         [outcome |-> "ok", params |-> [prm EXCEPT !.input = in]]
    [] call = "out_of_range_to_blank" ->
         [outcome |-> "ok", params |-> ui_out_of_range_to_blank(prm)]
    [] call = "blank_remove" ->
         [outcome |-> "ok",
          params |-> [prm EXCEPT !.input = BlankRemove(prm.input)]]
    [] call = "check_size" ->
         [outcome |-> IF Len(prm.input) = 0 THEN "NoData" ELSE "ok",
          params |-> prm]
    [] call = "make_sorted" ->
         [outcome |-> "ok",
          params |-> [prm EXCEPT
                        !.sorted = IF IsSorted(prm.input) THEN prm.input
                                   ELSE SortIncreasing(prm.input)]]

\* The option parser stores the values of --lessthan and --greaterequal.
setLimits(lt, ge) ==
  /\ status = "running"
  /\ pc = <<>>
  /\ params' = [params EXCEPT !.lessthan = lt, !.greaterequal = ge]
  /\ last' = [NoLast EXCEPT !.op = "set_limits", !.outcome = "ok"]
  /\ UNCHANGED <<arrays, heap, disk, status, pc>>

\* The next call of ui_read_check_inputs_setup; `in' is the dataset the
\* call that reads the input finds in the file.
setupStep(in) ==
  /\ status = "running"
  /\ NextCall # "none"
  /\ LET r == CallEffect(NextCall, params, in)
     IN  /\ params' = r.params
         /\ status' = StatusAfter(r.outcome)
         /\ last' = [NoLast EXCEPT !.op = NextCall, !.outcome = r.outcome]
  /\ pc' = Append(pc, NextCall)
  /\ UNCHANGED <<arrays, heap, disk>>

\* The calls of gal_data_free in ui_free_report: the sorted array when it
\* is not the input itself, and the input.
FreeReportCalls(prm) ==
  (IF IsSorted(prm.input) THEN <<>> ELSE <<"free_sorted">>)
  \o <<"free_input">>

\* ui_free_report(p), which the program calls once after its work on the
\* arrays the setup made.
ui_free_report ==
  /\ status = "running"
  /\ pc = SetupCalls
  /\ params' = [params EXCEPT !.input = <<>>, !.sorted = <<>>]
  /\ pc' = Append(pc, "free_report")
  /\ last' = [NoLast EXCEPT !.op = "free_report", !.outcome = "ok",
                !.value = FreeReportCalls(params)]
  /\ UNCHANGED <<arrays, heap, disk, status>>

(***************************************************************************)
(* SpecUi: the options of the Statistics program that take numbers, given  *)
(* any number of times with every list of numbers, and printed.            *)
(***************************************************************************)
NextUi ==
  \/ \E key \in OptionKeys, in \in NumberLists : ui_parse_numbers(key, 1, in)
  \/ \E key \in OptionKeys : ui_parse_numbers(key, -1, <<>>)

SpecUi == Init /\ [][NextUi]_vars

(***************************************************************************)
(* SpecPrep: a run of the Statistics program: the limits and the quantile  *)
(* range are given or not, and the setup reads every dataset.              *)
(***************************************************************************)
QuantileLists == {in \in NumberLists : Len(in) <= 2}

NextPrep ==
  \/ \E lt \in LimitValues, ge \in LimitValues : setLimits(lt, ge)
  \/ /\ pc = <<>>
     /\ \E in \in QuantileLists : ui_parse_numbers("QRANGE", 1, in)
  \/ \E in \in (IF NextCall = "read" THEN InputArrays ELSE {<<>>}) :
       setupStep(in)
  \/ ui_free_report

SpecPrep == Init /\ [][NextPrep]_vars

(***************************************************************************)
(* The properties.                                                         *)
(***************************************************************************)
\* The backing files of the mapped structures the caller holds.
LiveFiles == {arrays[h].mmapname : h \in {x \in Handles : arrays[x].mmapped}}

\* The product of the extents.
RECURSIVE ProductOfExtents(_)
ProductOfExtents(dsize) ==
  IF dsize = <<>> THEN 1 ELSE Head(dsize) * ProductOfExtents(Tail(dsize))

\* The last call was `op' and it returned.
Returned(op) == last.op = op /\ last.outcome = "ok"

AllZero(data) == \A i \in 1..data.size : data.array[i] = ZeroOf(data.type)

\* C1: while the program runs, the files of the scratch directory are
\* exactly the backing files of the mapped arrays the caller holds.
C1_FilesAreLiveFiles == status = "running" => DOMAIN disk = LiveFiles

\* C2: when gal_data_apply_mask returns, each element of the target is the
\* blank value of the target's type where the mask is not zero, and is what
\* it was where the mask is zero.
C2_MaskedOrKept ==
  [][(last'.op = "apply_mask" /\ last'.outcome = "ok") =>
       \A i \in 1..arrays[last'.h].size :
         arrays'[last'.h].array[i] =
           IF arrays[last'.h2].array[i] # 0
             THEN GAL_DATA_BLANK(arrays[last'.h].type)
             ELSE arrays[last'.h].array[i]]_vars

\* C3: gal_data_apply_mask with a mask of the target's shape whose elements
\* are all zero leaves the target's elements and its anyblank flag as they
\* were, for every type of the target.
C3_ZeroMaskKeepsTarget ==
  [][(last'.op = "apply_mask"
      /\ arrays[last'.h].dsize = arrays[last'.h2].dsize
      /\ AllZero(arrays[last'.h2])) =>
       /\ arrays'[last'.h].array = arrays[last'.h].array
       /\ arrays'[last'.h].anyblank = arrays[last'.h].anyblank]_vars

C3_Witness ==
  /\ Returned("apply_mask")
  /\ AllZero(arrays[2])
  /\ arrays[1].type = "DCOMPLEX"
  /\ arrays[2].type = "UCHAR"
  /\ arrays[1].size = 2
  /\ arrays[1].array[2] = <<0, 0>>
  /\ ~arrays[1].anyblank

\* C4: gal_data_apply_mask on a target and a mask that differ in the number
\* of dimensions or in an extent ends with the shape error, and has then
\* changed no structure, allocated nothing and created no file.
C4_ShapeMismatchFails ==
  [][(last'.op = "apply_mask"
      /\ arrays[last'.h].dsize # arrays[last'.h2].dsize) =>
       /\ last'.outcome = "ShapeMismatch"
       /\ arrays' = arrays
       /\ heap' = heap
       /\ disk' = disk]_vars

C4_Witness ==
  /\ last.op = "apply_mask"
  /\ last.outcome = "ShapeMismatch"
  /\ arrays[1].dsize = <<1>>
  /\ arrays[2].dsize = <<2>>
  /\ arrays[2].mmapped
  /\ arrays[2].type = "UCHAR"
  /\ arrays[2].array[1] = 1
  /\ DOMAIN disk = {arrays[2].mmapname}

\* C5: when gal_data_blank_to_value returns, every element of the array that
\* was blank holds the value, and every other element is what it was.
C5_BlanksReplaced ==
  [][(last'.op = "blank_to_value" /\ last'.outcome = "ok") =>
       \A i \in 1..arrays[last'.h].size :
         arrays'[last'.h].array[i] =
           IF IsBlankValue(arrays[last'.h].type, arrays[last'.h].array[i])
             THEN last'.value
             ELSE arrays[last'.h].array[i]]_vars

\* C6: gal_data_blank_to_value ends, whatever the array holds.
C6_BlankToValueEnds == last.op = "blank_to_value" => last.outcome # "hang"

\* C7: gal_data_alloc with a dsize that has an extent of 0 ends with the
\* error of the zero extent, for either backend, when its allocations of
\* the structure and of dsize succeed; it has then allocated no buffer and
\* no file name, created no file and given the caller no structure.
C7_ZeroExtentFails ==
  [][(last'.op = "alloc"
      /\ (\E i \in 1..Len(last'.dsize) : last'.dsize[i] = 0)
      /\ last'.fault \notin {"malloc_struct", "malloc_dsize"}) =>
       /\ last'.outcome = "InvalidShape"
       /\ disk' = disk
       /\ heap' \ heap = {Block(last'.h, "struct"), Block(last'.h, "dsize")}
       /\ arrays' = arrays]_vars

C7_Witness ==
  /\ last.op = "alloc"
  /\ last.outcome = "InvalidShape"
  /\ last.dsize = <<2, 0>>
  /\ last.map
  /\ last.type = "FLOAT"
  /\ DOMAIN disk = {}

\* The fields of the shape of a structure.
ShapeOf(data) == <<data.ndim, data.dsize, data.size>>

\* C8: the size of every structure the caller holds is the product of its
\* extents, and no call changes the size, the number of dimensions or an
\* extent of a structure the caller goes on holding.
C8_SizeIsProduct ==
  /\ [](\A h \in Handles :
          Live(h) => /\ arrays[h].size = ProductOfExtents(arrays[h].dsize)
                     /\ arrays[h].ndim = Len(arrays[h].dsize))
  /\ [][\A h \in Handles :
          (Live(h) /\ last'.op \in {"apply_mask", "blank_to_value",
                                    "copy_to_new_type"}) =>
            ShapeOf(arrays'[h]) = ShapeOf(arrays[h])]_vars

C8_Witness ==
  /\ Returned("apply_mask")
  /\ arrays[last.h].anyblank
  /\ arrays[last.h].dsize = <<1, 1>>
  /\ arrays[last.h].size = 1
  /\ arrays[last.h2].dsize = <<1, 1>>

\* C9: gal_data_free of a mapped structure removes its backing file and no
\* other file; gal_data_free of a structure on the heap leaves the directory
\* as it is; and the mmapped flag of a structure the caller goes on holding
\* never changes.
C9_FreeRemovesOwnFile ==
  [][/\ last'.op = "free" =>
          IF arrays[last'.h].mmapped
            THEN /\ arrays[last'.h].mmapname \in DOMAIN disk
                 /\ disk' = WithoutFile(disk, arrays[last'.h].mmapname)
            ELSE disk' = disk
     /\ \A h \in Handles :
          (Live(h) /\ arrays'[h] # NoArray) =>
            /\ arrays'[h].mmapped = arrays[h].mmapped
            /\ arrays'[h].mmapname = arrays[h].mmapname]_vars

C9_Witness ==
  /\ last.op = "free"
  /\ last.map
  /\ \E h \in Handles : arrays[h].mmapped /\ DOMAIN disk = {arrays[h].mmapname}

\* C10: the structure gal_data_copy_to_new_type returns has the number of
\* dimensions and the extents of its input, the new type, and the mmapped
\* flag of its input.
C10_CopyKeepsShapeAndBackend ==
  [][(last'.op = "copy_to_new_type" /\ last'.outcome = "ok") =>
       /\ arrays'[last'.h2].ndim = arrays[last'.h].ndim
       /\ arrays'[last'.h2].dsize = arrays[last'.h].dsize
       /\ arrays'[last'.h2].type = last'.type
       /\ arrays'[last'.h2].mmapped = arrays[last'.h].mmapped]_vars

C10_Witness ==
  /\ Returned("copy_to_new_type")
  /\ arrays[1].type = "SHORT"
  /\ arrays[1].mmapped
  /\ arrays[1].dsize = <<1, 1>>
  /\ arrays[2].type = "DOUBLE"
  /\ arrays[2].mmapped
  /\ arrays[2].dsize = <<1, 1>>
  /\ arrays[2].mmapname # arrays[1].mmapname

\* The heap blocks and the file of a structure the caller holds.
BlocksOf(h) ==
  {Block(h, "struct"), Block(h, "dsize"),
   IF arrays[h].mmapped THEN Block(h, "mmapname") ELSE Block(h, "array")}

\* The structure of handle h is held, allocated and, when mapped, on disk.
Owned(h, hp, d) ==
  /\ BlocksOf(h) \subseteq hp
  /\ arrays[h].mmapped => arrays[h].mmapname \in DOMAIN d

\* C11: gal_data_copy_to_new_type leaves its input, and gal_data_apply_mask
\* leaves its mask, as the caller gave it: every field of the structure is
\* the same, its heap blocks are still allocated and its file is still on
\* disk, whether the mask was converted to float or not.
C11_InputsKept ==
  [][/\ (last'.op = "copy_to_new_type" /\ last'.outcome = "ok") =>
          /\ arrays'[last'.h] = arrays[last'.h]
          /\ Owned(last'.h, heap', disk')
     /\ (last'.op = "apply_mask" /\ last'.outcome = "ok") =>
          /\ arrays'[last'.h2] = arrays[last'.h2]
          /\ Owned(last'.h2, heap', disk')]_vars

C11_Witness ==
  /\ Returned("apply_mask")
  /\ arrays[last.h].anyblank
  /\ arrays[last.h2].type = "UCHAR"
  /\ arrays[last.h2].mmapped
  /\ arrays[last.h2].array[1] = 1
  /\ Owned(last.h2, heap, disk)
  /\ Cardinality(DOMAIN disk) = 2

\* An element of the structure holds the blank value of its type.
HoldsBlank(data) ==
  \E i \in 1..Len(data.array) : IsBlankValue(data.type, data.array[i])

\* C12: no structure of a number type that the caller holds has anyblank = 0
\* while one of its elements is blank.  (The caller's own writes in this
\* specification are never blank values.)
C12_AnyblankCoversBlanks ==
  \A h \in Handles :
    (Live(h) /\ arrays[h].type # "STRING" /\ ~arrays[h].anyblank) =>
      ~HoldsBlank(arrays[h])

\* What gal_data_copy_to_new_type gives, in the present state, for the
\* structure of handle h and the type code k, with the output in handle o.
ConversionOf(h, o, k) ==
  gal_data_copy_to_new_type(disk, heap, o, arrays[h], k, "wrap")

\* The type codes for which the conversion of handle h returns a structure.
DestinationTypes(h, o) ==
  {k \in AllTypes : ConversionOf(h, o, k).outcome = "ok"}

\* C13: gal_data_copy_to_new_type returns a structure for exactly 12 type
\* codes, and for every other type code it ends with the error of an
\* unrecognized type and returns no structure (seen on an input of a type
\* the conversion routines read).
C13_TwelveDestinations ==
  (/\ status = "running"
   /\ Live(1)
   /\ ~Live(2)
   /\ arrays[1].arrayok
   /\ arrays[1].type \in ChangeSources
   /\ arrays[1].mmapped => NameLeft) =>
    /\ Cardinality(DestinationTypes(1, 2)) = 12
    /\ \A k \in AllTypes \ DestinationTypes(1, 2) :
         /\ ConversionOf(1, 2, k).outcome = "UnsupportedKind"
         /\ ConversionOf(1, 2, k).data = NoArray

\* C14: gal_data_copy_to_new_type between the string type and another type,
\* in either direction, ends with the error of an unsupported conversion;
\* from the string type to the string type it returns a structure with the
\* elements of its input.
C14_StringConversions ==
  [][(last'.op = "copy_to_new_type" /\ arrays[last'.h].arrayok) =>
       IF arrays[last'.h].type = "STRING" /\ last'.type = "STRING"
         THEN /\ last'.outcome = "ok"
              /\ arrays'[last'.h2].array = arrays[last'.h].array
       ELSE IF arrays[last'.h].type = "STRING" \/ last'.type = "STRING"
         THEN last'.outcome = "UnsupportedConversion"
       ELSE TRUE]_vars

\* C15: when gal_data_copy_to_new_type or gal_data_apply_mask ends with an
\* error, the files of the scratch directory are those of before the call
\* (stated for a conversion input, or a mask, of a type the conversion
\* routines read).
C15_ErrorLeavesNoFile ==
  [][(/\ \/ last'.op = "copy_to_new_type"
            /\ arrays[last'.h].type \in ChangeSources
         \/ last'.op = "apply_mask"
            /\ arrays[last'.h2].type \in ChangeSources
      /\ last'.outcome \notin {"ok", "hang"}) => disk' = disk]_vars

\* The kinds of the type catalogue.
ClosedSet ==
  {"UCHAR", "CHAR", "LOGICAL", "STRING", "USHORT", "SHORT", "UINT", "INT",
   "ULONG", "LONG", "LONGLONG", "FLOAT", "DOUBLE", "COMPLEX", "DCOMPLEX"}

\* C16: gal_data_sizeof returns a positive width for each of the fifteen
\* kinds of the catalogue and ends with the error of an unsupported type,
\* returning no width, for every other type code, the bit type included;
\* gal_data_alloc_blank, when its allocation succeeds, returns a blank value
\* for the same fifteen kinds and ends with that error for every other code.
C16_ClosedCatalogue ==
  /\ last.op = "sizeof" =>
       IF last.type \in ClosedSet
         THEN last.outcome = "ok" /\ last.value > 0
         ELSE last.outcome = "UnsupportedKind" /\ last.value = 0
  /\ (last.op = "alloc_blank" /\ last.fault = "none") =>
       IF last.type \in ClosedSet
         THEN last.outcome = "ok" /\ BlankBlock \in heap
         ELSE last.outcome = "UnsupportedKind"

C16_Witness ==
  /\ last.op = "alloc_blank"
  /\ last.outcome = "ok"
  /\ last.type = "LOGICAL"
  /\ last.value = 127
  /\ Live(1)
  /\ arrays[1].type = "DCOMPLEX"

\* C17: a mapped gal_data_alloc that reaches gal_data_mmap (the type has a
\* width and no extent is 0) and meets a failure of mkstemp, lseek, write or
\* mmap ends with the error of the storage backend and gives the caller no
\* structure.
C17_MapFailureIsFatal ==
  (/\ last.op = "alloc"
   /\ last.map
   /\ last.fault \in {"mkstemp", "lseek", "write", "mmap"}
   /\ gal_data_sizeof(last.type) # 0
   /\ FirstZero(last.dsize) = 0) =>
    /\ last.outcome = "StorageBackendFailure"
    /\ ~Live(last.h)

\* C18: for every two structures the caller holds,
\* gal_data_dsize_is_different returns 0 exactly when they have the same
\* number of dimensions and the same extent in each; it gives the same
\* answer for both orders of its arguments and reads no extent beyond the
\* number of dimensions of either structure.
C18_DsizeIsDifferent ==
  \A a \in Handles, b \in Handles :
    (Live(a) /\ Live(b)) =>
      /\ (gal_data_dsize_is_different(arrays[a], arrays[b]) = 0) <=>
           (/\ arrays[a].ndim = arrays[b].ndim
            /\ \A i \in 1..arrays[a].ndim :
                 arrays[a].dsize[i] = arrays[b].dsize[i])
      /\ gal_data_dsize_is_different(arrays[a], arrays[b]) =
           gal_data_dsize_is_different(arrays[b], arrays[a])
      /\ DsizeReads(arrays[a], arrays[b]) \subseteq
           (1..arrays[a].ndim) \cap (1..arrays[b].ndim)

C18_Witness ==
  /\ last.op = "apply_mask"
  /\ last.outcome = "ShapeMismatch"
  /\ arrays[last.h].dsize = <<1, 2>>
  /\ arrays[last.h2].dsize = <<1, 1>>
  /\ gal_data_dsize_is_different(arrays[last.h], arrays[last.h2]) = 1

\* C19: a gal_data_alloc whose allocation of the structure or of dsize
\* fails, or whose allocation of the buffer is reached and fails, ends with
\* the error of the failed allocation and gives the caller no structure.
C19_AllocFailureIsOutOfMemory ==
  (/\ last.op = "alloc"
   /\ \/ last.fault \in {"malloc_struct", "malloc_dsize"}
      \/ /\ last.fault = "malloc_array"
         /\ gal_data_sizeof(last.type) # 0
         /\ FirstZero(last.dsize) = 0) =>
    /\ last.outcome = "OutOfMemory"
    /\ ~Live(last.h)

\* A double is greater than zero.
Positive(x) == ~IsNan(x) /\ x > 0

\* A double is a whole number.
Whole(x) == ~IsNan(x) /\ x % Unit = 0

\* C20: when ui_parse_numbers returns from parsing the value of the
\* sigma-clip option, the value had exactly two numbers, and the stored
\* multiple of sigma is greater than zero and the stored second parameter
\* is greater than zero and either less than 1 or a whole number.
C20_SigmaClipAccepted ==
  (/\ last.op = "parse_numbers"
   /\ last.key = "SIGMACLIP"
   /\ last.lineno # -1
   /\ last.outcome = "ok") =>
    /\ Len(last.value) = 2
    /\ params.sigclipmultip = last.value[1]
    /\ params.sigclipparam = last.value[2]
    /\ Positive(params.sigclipmultip)
    /\ Positive(params.sigclipparam)
    /\ params.sigclipparam < Unit \/ Whole(params.sigclipparam)

C20_Witness ==
  /\ last.op = "parse_numbers"
  /\ last.key = "SIGMACLIP"
  /\ last.outcome = "ok"
  /\ last.value = <<3, 1>>
  /\ params.sigclipmultip = 3
  /\ params.sigclipparam = 1
  /\ params.quantmin = 0

\* A double lies between 0 and 1, the ends included.
InUnitRange(x) == ~IsNan(x) /\ 0 <= x /\ x <= Unit

\* C21: when ui_parse_numbers returns from parsing the value of the
\* quantile-range option, the value had one number Q with 0 <= Q <= 0.5, or
\* two numbers that both lie between 0 and 1.
C21_QuantileRangeAccepted ==
  (/\ last.op = "parse_numbers"
   /\ last.key = "QRANGE"
   /\ last.lineno # -1
   /\ last.outcome = "ok") =>
    IF Len(last.value) = 1
      THEN /\ params.quantmin = last.value[1]
           /\ InUnitRange(params.quantmin)
           /\ 2 * params.quantmin <= Unit
      ELSE /\ Len(last.value) = 2
           /\ InUnitRange(last.value[1])
           /\ InUnitRange(last.value[2])

\* The place of a call in the calls of a release, 0 when it was not made.
StepAt(steps, call) ==
  IF \E i \in 1..Len(steps) : steps[i] = call
    THEN CHOOSE i \in 1..Len(steps) : steps[i] = call
    ELSE 0

\* C22: gal_data_free of a mapped structure unmaps the mapping, then removes
\* the backing file, then frees the file name; after it no mapping of the
\* structure is left in the process.
C22_FreeUnmapsFirst ==
  (last.op = "free" /\ last.map) =>
    /\ StepAt(last.value, "munmap") > 0
    /\ StepAt(last.value, "munmap") < StepAt(last.value, "remove")
    /\ StepAt(last.value, "remove") < StepAt(last.value, "free_mmapname")
    /\ Block(last.h, "mapping") \notin heap

\* C23: the backing file of every mapped structure the caller holds is as
\* long as the structure's buffer: size elements of the width of its type.
C23_FileLengthIsBufferSize ==
  \A h \in Handles :
    (status = "running" /\ Live(h) /\ arrays[h].mmapped) =>
      disk[arrays[h].mmapname] = arrays[h].size * gal_data_sizeof(arrays[h].type)

\* C24: every extent of every structure the caller holds is greater than 0,
\* and gal_data_alloc with a negative extent ends with the error of the
\* shape, as it does with an extent of 0, when its allocations of the
\* structure and of dsize succeed.
C24_ExtentsArePositive ==
  /\ \A h \in Handles :
       Live(h) => \A i \in 1..Len(arrays[h].dsize) : arrays[h].dsize[i] > 0
  /\ (/\ last.op = "alloc"
      /\ \E i \in 1..Len(last.dsize) : last.dsize[i] < 0
      /\ last.fault \notin {"malloc_struct", "malloc_dsize"}) =>
       last.outcome = "InvalidShape"

\* The place of a call in the calls made so far, 0 when it was not made.
CallAt(call) == StepAt(pc, call)

\* C25: when the Statistics program tests the sortedness of its input or
\* sorts it, it has turned the out-of-range values to blank, then removed
\* the blank elements, then checked that the input is not empty, in this
\* order; the input it tests or sorts then holds no blank element and is
\* not empty, and the sorted array is the input in non-decreasing order.
C25_SortAfterBlankRemoval ==
  last.op = "make_sorted" =>
    /\ 0 < CallAt("out_of_range_to_blank")
    /\ CallAt("out_of_range_to_blank") < CallAt("blank_remove")
    /\ CallAt("blank_remove") < CallAt("check_size")
    /\ CallAt("check_size") < CallAt("make_sorted")
    /\ \A i \in 1..Len(params.input) : ~IsNan(params.input[i])
    /\ Len(params.input) > 0
    /\ Len(params.sorted) = Len(params.input)
    /\ \A i \in 1..(Len(params.sorted) - 1) :
         params.sorted[i] <= params.sorted[i + 1]

C25_Witness ==
  /\ last.op = "make_sorted"
  /\ params.greaterequal = 2
  /\ IsNan(params.lessthan)
  /\ params.input = <<4, 2>>
  /\ params.sorted = <<2, 4>>

\* C26: the structure gal_data_copy_to_new_type returns has anyblank = 0
\* and wcs = NULL whatever the input's anyblank and wcs are, and so does
\* not share the input's WCS structure; the input keeps its own.
C26_OutputMetadataCleared ==
  (last.op = "copy_to_new_type" /\ last.outcome = "ok") =>
    /\ ~arrays[last.h2].anyblank
    /\ arrays[last.h2].wcs = 0
    /\ arrays[last.h].wcs # 0 => arrays[last.h2].wcs # arrays[last.h].wcs

\* A conversion of an input that has anyblank = 1 and a WCS structure.
C26_Witness ==
  /\ last.op = "copy_to_new_type"
  /\ last.outcome = "ok"
  /\ arrays[last.h].anyblank
  /\ arrays[last.h].wcs # 0
  /\ ~arrays[last.h2].anyblank
  /\ arrays[last.h2].wcs = 0

\* C27: gal_data_apply_mask releases everything it allocates: after a call
\* that returns, the blocks of the heap, the mappings and the files are
\* those of before the call, whether the mask was converted to float or was
\* float already.
C27_MaskReleasesTemporaries ==
  [][(last'.op = "apply_mask" /\ last'.outcome = "ok") =>
       (heap' = heap /\ disk' = disk)]_vars

====
